---- MODULE Spec2Model ----
(***************************************************************************)
(* yt-dlp-gui: the cooperative cancellation and notification mechanism of  *)
(* downloader.DownloadManager (src/downloader.py), driven by the worker    *)
(* threads that ui.main (src/ui.py) starts and by a direct caller of       *)
(* DownloadManager.download_url_list.                                      *)
(*                                                                         *)
(* One DownloadManager is shared by all threads, as in ui.main.  The       *)
(* external library call (yt_dlp.YoutubeDL.download) is the environment:   *)
(* it invokes the progress hook any number of times and then returns,      *)
(* raises an error, or lets a KeyboardInterrupt through; an exception      *)
(* raised by the hook propagates out of it.                                *)
(***************************************************************************)
EXTENDS Integers, Sequences, FiniteSets, TLC

(* ------------------------------ bounds -------------------------------- *)

\* progress events the external call delivers to one download
MaxHooks == 1
\* stop() calls in one behaviour
MaxStops == 1
\* lines of a URL list file
MaxLines == 2
\* DownloadManager objects constructed in one process
MaxMgrs == 2
\* calls of _register_manager / _unregister_manager in one behaviour
MaxRegCalls == 4
\* SIGINTs delivered in one behaviour
MaxSigs == 1
\* set() / clear() calls on one abort signal
MaxCalls == 6
\* components of a save path given by the caller
MaxDirs == 1
\* parts of a URL given by the caller
MaxUrlLen == 2
\* calls of stop_download() in the prototype
MaxStopCalls == 2

\* worker threads (threading.Thread started by run_in_thread, or a caller's own)
Workers == {1, 2}
\* lock value when nobody holds DownloadManager._lock
NoOwner == 0
\* the URL typed into the window; the URL written on line i of a list file is i
UiUrl == 0
\* errors the external download call can raise (other than cancellation)
ExtErrors == {"E1"}

VARIABLES
    abort_event,   \* DownloadManager.abort_event (threading.Event): is_set()
    active,        \* DownloadManager._active
    lock,          \* holder of DownloadManager._lock, or NoOwner
    pc,            \* per thread: where it is in its code
    entry,         \* per thread: the public method it runs
    urls,          \* per thread: the URLs it downloads, in order
    idx,           \* per thread: 1-based index of the current item
    cb,            \* per thread: callbacks of the current download's bundle, in order
    bcb,           \* per thread: callbacks of the batch bundle, in order
    outcomes,      \* per thread: how the external call of each attempted item ended
    attempted,     \* per thread: items for which ydl.download was invoked, in order
    exc,           \* per thread: what _run_download propagates ("none" = returns)
    result,        \* per thread: what the public method delivered to its caller
    posted,        \* per thread: events the worker itself posted to the window
    stops,         \* history: number of stop() calls so far
    stopsAtCall,   \* history: value of stops when the thread entered its method
    mark,          \* history: where the thread was at the latest stop()
    overlap,       \* history: a method was entered while another was in flight
    cbRaised       \* history: some callback raised an exception

mgrVars   == <<abort_event, active, lock>>
runVars   == <<pc, entry, urls, idx, cb, bcb, outcomes, attempted, exc, result, posted>>
histVars  == <<stops, stopsAtCall, mark, overlap>>
dlVars    == <<abort_event, active, lock, pc, entry, urls, idx, cb, bcb, outcomes,
               attempted, exc, result, posted, stops, stopsAtCall, mark, overlap,
               cbRaised>>

(* The module-level registry of managers and the SIGINT handlers. *)
VARIABLES
    registry,      \* downloader._registered_managers (a list)
    regLock,       \* holder of downloader._registered_managers_lock, or NoOwner
    rpc,           \* per thread: the registry function it is inside, holding the lock
    rarg,          \* per thread: the manager that function was called with
    life,          \* per manager: "none", "live" (a caller refers to it),
                   \*   "released" (no caller refers to it), "destroyed"
    handler,       \* the installed SIGINT handler: "broadcast" or "ui"
    sig,           \* the running SIGINT handler: "none", "waiting", "locked"
    sigs,          \* history: SIGINTs delivered so far
    snapshot,      \* history: the registry when the latest handler read it
    invoked,       \* history: managers whose stop() the latest handler invoked
    lastOp,        \* history: per manager, the latest completed registry call
    ncalls,        \* history: registry calls begun so far
    dupReg,        \* history: some _register_manager found its manager registered
    noopUnreg      \* history: some _unregister_manager found its manager absent

regVars   == <<registry, regLock, rpc, rarg, life, handler, sig, sigs, snapshot, invoked,
               lastOp, ncalls, dupReg, noopUnreg>>

(* The calls made on one manager's abort signal (threading.Event). *)
VARIABLES
    calls,         \* history: the set() / clear() calls so far, in order
    prevFlag       \* history: is_set() before the latest call

evVars    == <<calls, prevFlag>>

(* What the public download methods hand to yt-dlp. *)
VARIABLES
    meta,          \* DownloadManager.metadata_mode (attribute; absent until set)
    metaRaw,       \* history: the argument of the latest set_metadata_mode
    req,           \* history: the latest call of a download method (its arguments)
    opts           \* the ydl_opts built for that call

buildVars == <<meta, metaRaw, req, opts>>

(* One thread that calls fetch_info. *)
VARIABLES
    fpc,           \* where the thread is: "idle", "probe", "done"
    fopts,         \* what fetch_info asked of the external probe
    fraw,          \* history: what the external probe did
    fresult        \* what fetch_info gave its caller

fetchVars == <<fpc, fopts, fraw, fresult>>

(* The window's info-fetch worker that runs on that thread. *)
VARIABLES
    fkind,         \* "video" / "live": which worker of ui.py; "none": another caller
    fposted        \* the events the worker has posted to the window

fwVars == <<fkind, fposted>>

(* The prototype main.py: its download threads and stop_download(). *)
VARIABLES
    current_download_process,  \* the global: NoProcess (None) or a thread's downloader
    ppc,           \* per thread: "idle", "built", "run", "done"
    pabort,        \* per thread: params['abort'] of the thread's downloader
    spc,           \* stop_download() in the window's thread: "out", "in"
    stopCalls,     \* history: calls of stop_download() begun
    stopRet,       \* history: what the latest stop_download() returned
    stopMarked,    \* history: the downloader that call marked, NoProcess if none
    stopFlight     \* history: the downloads in flight when that call returned

protoVars == <<current_download_process, ppc, pabort, spc, stopCalls, stopRet,
               stopMarked, stopFlight>>

\* everything outside the download threads
auxVars   == <<regVars, evVars, buildVars, fetchVars, fwVars, protoVars>>
\* everything outside the registry
nonRegVars == <<dlVars, evVars, buildVars, fetchVars, fwVars, protoVars>>
\* everything outside the option builder
nonBuildVars == <<dlVars, regVars, evVars, fetchVars, fwVars, protoVars>>
\* everything outside fetch_info
nonFetchVars == <<dlVars, regVars, evVars, buildVars, fwVars, protoVars>>
\* everything outside the info-fetch workers and fetch_info
nonWorkerVars == <<dlVars, regVars, evVars, buildVars, protoVars>>
\* everything outside the prototype
nonProtoVars == <<dlVars, regVars, evVars, buildVars, fetchVars, fwVars>>
\* everything but the abort signal and the history of its calls
nonEvVars == <<active, lock, pc, entry, urls, idx, cb, bcb, outcomes, attempted, exc,
               result, posted, stops, stopsAtCall, mark, overlap, cbRaised, regVars,
               buildVars, fetchVars, fwVars, protoVars>>

vars      == <<dlVars, auxVars>>

(* ----------------------------- helpers -------------------------------- *)

SingleEntries  == {"video", "live", "playlist"}
ManagerEntries == SingleEntries \cup {"url_list"}

Last(s) == s[Len(s)]

Count(s, e) == Cardinality({i \in 1..Len(s) : s[i].ev = e})

\* the thread is inside a method of the manager
Busy(w) == entry[w] \in ManagerEntries /\ pc[w] \notin {"idle", "done"}

\* the thread is inside _run_download, past the clear of its start step, and
\* the external call has not ended
InRun(w) == pc[w] \in {"run_locked", "ext"}

\* the thread is in download_url_list between two items: item idx-1 has
\* completed and the start step of item idx has not begun
InGap(w) == /\ entry[w] = "url_list"
            /\ pc[w] \in {"list_check", "run_start"}
            /\ idx[w] >= 2
            /\ idx[w] <= Len(urls[w])

\* run_in_thread gives the work to a fresh thread: the lowest unused one
Fresh(w) == pc[w] = "idle" /\ \A v \in Workers : v < w => pc[v] # "idle"

(* --------------------------- callback bundles ------------------------- *)

\* Callbacks the bundle of an entry point provides: _callbacks_single,
\* _callbacks_live, _callbacks_playlist of ui.py; the caller of
\* download_url_list gives every callback, for the batch and for each item.
Bundle(e) ==
    CASE e = "video"    -> {"start", "progress", "complete", "error"}
      [] e = "live"     -> {"start", "progress", "complete", "error"}
      [] e = "playlist" -> {"progress", "complete", "error"}
      [] e = "url_list" -> {"start", "progress", "complete", "error"}
      [] OTHER          -> {}

\* Invoke callback p.ev of bundle b with payload p: appended to the log l when
\* the bundle provides it ("if callbacks.on_x:").
Invoke(l, b, p) == IF p.ev \in b THEN Append(l, p) ELSE l

\* What a callback can do when invoked: return (FALSE) or raise (TRUE); a
\* callback the bundle does not provide is not invoked.
Raising(b, ev) == IF ev \in b THEN BOOLEAN ELSE {FALSE}

\* variant without the guard around a callback
EscapesAlways(r) == r

\* "try: callbacks.on_x(...) except Exception: logger.exception(...)": whether
\* an exception raised by the callback leaves the guard.
Escapes(r) == FALSE

\* Payloads of _run_download's callbacks.  aborted = FALSE: no "aborted" key.
StartPayload(u)    == [ev |-> "start",    url |-> u, error |-> "",  aborted |-> FALSE]
ProgressPayload(u) == [ev |-> "progress", url |-> u, error |-> "",  aborted |-> FALSE]
CompletePayload(u) == [ev |-> "complete", url |-> u, error |-> "",  aborted |-> FALSE]
AbortPayload(u, e) == [ev |-> "error",    url |-> u, error |-> e,   aborted |-> TRUE]
ErrorPayload(u, e) == [ev |-> "error",    url |-> u, error |-> e,   aborted |-> FALSE]

\* Payloads of download_url_list's batch callbacks.  0 / "" = key absent.
BatchPayload(e, c, t, u, err, ph) ==
    [ev |-> e, current |-> c, total |-> t, url |-> u, error |-> err, phase |-> ph]

BatchStart           == BatchPayload("start", 0, 0, 0, "", "")
BatchReadErrorPlain(e) == BatchPayload("error", 0, 0, 0, e, "")
BatchReadError(e)    == BatchPayload("error", 0, 0, 0, e, "read_url_list")
BatchProgress(i, n, u) == BatchPayload("progress", i, n, u, "", "")
BatchItemError(i, n, u, e) == BatchPayload("error", i, n, u, e, "")
BatchComplete(n)     == BatchPayload("complete", 0, n, 0, "", "")

(* ------------------------------ stop() -------------------------------- *)

\* variant of set() that flips the flag
SetSignalFlipped(a) == ~a

\* abort_event.set()
SetSignal(a) == TRUE

\* DownloadManager.stop(): called by the window's stop buttons, on window
\* close, and by both SIGINT handlers.  It does not take _lock.
Stop ==
    /\ stops < MaxStops
    /\ abort_event' = SetSignal(abort_event)
    /\ stops' = stops + 1
    /\ mark' = [w \in Workers |->
                  IF InRun(w) THEN "run" ELSE IF InGap(w) THEN "gap" ELSE mark[w]]
    /\ UNCHANGED <<active, lock, runVars, stopsAtCall, overlap, cbRaised>>
    /\ UNCHANGED auxVars

(* ------------------------ entering a method --------------------------- *)

\* A worker thread of the window enters a download method of the manager:
\* the output template and the options are built, then _run_download is called.
Enter(w, e, us) ==
    /\ Fresh(w)
    /\ \A v \in Workers : entry[v] # "url_list"
    /\ pc' = [pc EXCEPT ![w] = "run_start"]
    /\ entry' = [entry EXCEPT ![w] = e]
    /\ urls' = [urls EXCEPT ![w] = us]
    /\ idx' = [idx EXCEPT ![w] = 1]
    /\ stopsAtCall' = [stopsAtCall EXCEPT ![w] = stops]
    /\ overlap' = (overlap \/ \E v \in Workers \ {w} : Busy(v))
    /\ UNCHANGED <<mgrVars, cb, bcb, outcomes, attempted, exc, result, posted, stops,
                   mark, cbRaised>>
    /\ UNCHANGED auxVars

\* ui.main, event "単一ダウンロード開始" with url, format and folder given:
\* run_in_thread(worker_download_single, ..., is_livestream=False)
\* -> manager.download_video(single_file_mode=True) -> _run_download
UiStartSingle(w) == Enter(w, "video", <<UiUrl>>)

\* ui.main, event "生配信ダウンロード開始": worker_download_single with
\* is_livestream=True -> manager.download_livestream -> download_video
UiStartLive(w) == Enter(w, "live", <<UiUrl>>)

\* ui.main, event "連続ダウンロード開始", input that is no existing path:
\* run_in_thread(worker_download_playlist) -> manager.download_playlist_simple
UiStartPlaylist(w) == Enter(w, "playlist", <<UiUrl>>)

(* --------------------- URL list file (batch input) -------------------- *)

\* A line of the list file: text = 0 is a line of white space only, text = i
\* is the URL of line i; pad says whether white space surrounds the text.
LinesAt(i) == {[pad |-> p, text |-> t] : p \in BOOLEAN, t \in {0, i}}

Files == UNION {{f \in [1..n -> [pad : BOOLEAN, text : 0..MaxLines]] :
                    \A i \in 1..n : f[i] \in LinesAt(i)} : n \in 0..MaxLines}

\* line.strip(): the text without the surrounding white space
Strip(l) == l.text

\* variant of the reading loop that keeps every line
ReadUrlsAll(f) == [i \in 1..Len(f) |-> Strip(f[i])]

\* "for line in f: u = line.strip(); if u: urls.append(u)"
RECURSIVE ReadUrls(_)
ReadUrls(f) ==
    IF f = <<>> THEN <<>>
    ELSE LET u == Strip(Head(f))
         IN  IF u # 0 THEN <<u>> \o ReadUrls(Tail(f)) ELSE ReadUrls(Tail(f))

\* download_url_list ends by an exception e (or returns, e = "returned").
ListEnds(w, e) ==
    /\ result' = [result EXCEPT ![w] = e]
    /\ pc' = [pc EXCEPT ![w] = "done"]

\* DownloadManager.download_url_list up to the loop: batch on_start, then the
\* file is read; a read failure is reported with phase "read_url_list" and
\* re-raised.  The window never reaches this method (see UiUrlListWorker):
\* its caller is a program of its own, the only user of its manager besides
\* the threads that call stop().
CallUrlList(w) ==
    /\ Fresh(w)
    /\ \A v \in Workers : pc[v] = "idle"
    /\ \E f \in Files, readable \in BOOLEAN, r \in Raising(Bundle("url_list"), "start") :
         LET started == Invoke(<<>>, Bundle("url_list"), BatchStart)
         IN
         /\ entry' = [entry EXCEPT ![w] = "url_list"]
         /\ idx' = [idx EXCEPT ![w] = 1]
         /\ IF Escapes(r)
            THEN /\ urls' = [urls EXCEPT ![w] = <<>>]
                 /\ bcb' = [bcb EXCEPT ![w] = started]
                 /\ cbRaised' = (cbRaised \/ r)
                 /\ ListEnds(w, "CallbackError")
            ELSE IF readable
            THEN /\ urls' = [urls EXCEPT ![w] = ReadUrls(f)]
                 /\ bcb' = [bcb EXCEPT ![w] = started]
                 /\ cbRaised' = (cbRaised \/ r)
                 /\ pc' = [pc EXCEPT ![w] = "list_check"]
                 /\ UNCHANGED result
            ELSE \E r2 \in Raising(Bundle("url_list"), "error") :
                 /\ urls' = [urls EXCEPT ![w] = <<>>]
                 /\ bcb' = [bcb EXCEPT ![w] =
                        Invoke(started, Bundle("url_list"), BatchReadError("OSError"))]
                 /\ cbRaised' = (cbRaised \/ r \/ r2)
                 /\ ListEnds(w, IF Escapes(r2) THEN "CallbackError" ELSE "OSError")
    /\ stopsAtCall' = [stopsAtCall EXCEPT ![w] = stops]
    /\ overlap' = (overlap \/ \E v \in Workers \ {w} : Busy(v))
    /\ UNCHANGED <<mgrVars, cb, outcomes, attempted, exc, posted, stops, mark>>
    /\ UNCHANGED auxVars

\* "if self.abort_event.is_set(): raise DownloadAborted" at the head of the loop
ListAborts(a) == a

\* The head of download_url_list's loop for item idx: the abort check, the
\* batch on_progress, then per_item_callbacks_factory(url) makes the item's
\* bundle, or raises (made = FALSE): that call stands before the loop's try.
\* Past the last item, the batch on_complete.
ListCheck(w) ==
    /\ pc[w] = "list_check"
    /\ LET n == Len(urls[w])
           i == idx[w]
           B == Bundle("url_list")
       IN
       IF i > n
       THEN \E r \in Raising(B, "complete") :
            /\ bcb' = [bcb EXCEPT ![w] = Invoke(@, B, BatchComplete(n))]
            /\ cbRaised' = (cbRaised \/ r)
            /\ ListEnds(w, IF Escapes(r) THEN "CallbackError" ELSE "returned")
       ELSE IF ListAborts(abort_event)
       THEN /\ ListEnds(w, "DownloadAborted")
            /\ UNCHANGED <<bcb, cbRaised>>
       ELSE \E r \in Raising(B, "progress"), made \in BOOLEAN :
            /\ bcb' = [bcb EXCEPT ![w] = Invoke(@, B, BatchProgress(i, n, urls[w][i]))]
            /\ cbRaised' = (cbRaised \/ r)
            /\ IF Escapes(r)
               THEN ListEnds(w, "CallbackError")
               ELSE IF ~made
               THEN ListEnds(w, "FactoryError")
               ELSE /\ pc' = [pc EXCEPT ![w] = "run_start"]
                    /\ UNCHANGED result
    /\ UNCHANGED <<mgrVars, entry, urls, idx, cb, outcomes, attempted, exc, posted,
                   histVars>>
    /\ UNCHANGED auxVars

(* --------------------------- _run_download ---------------------------- *)

\* variant of the start step that leaves the signal as it finds it
ClearSignalKept(a) == a

\* abort_event.clear()
ClearSignal(a) == FALSE

\* Start step, first half: "with self._lock: self.abort_event.clear()".
\* The bundle of the download is fresh: nothing has been invoked on it.
RunClear(w) ==
    /\ pc[w] = "run_start"
    /\ lock = NoOwner
    /\ lock' = w
    /\ abort_event' = ClearSignal(abort_event)
    /\ cb' = [cb EXCEPT ![w] = <<>>]
    /\ mark' = [mark EXCEPT ![w] = IF @ = "run" THEN "none" ELSE @]
    /\ pc' = [pc EXCEPT ![w] = "run_locked"]
    /\ UNCHANGED <<active, entry, urls, idx, bcb, outcomes, attempted, exc, result,
                   posted, stops, stopsAtCall, overlap, cbRaised>>
    /\ UNCHANGED auxVars

\* "self._active = True"
Activated(a) == TRUE

\* Start step, second half: "self._active = True", the lock is released, then
\* on_start and the call of ydl.download([url]).  on_start stands before the
\* try statement: an exception leaving its guard would skip the finally block.
RunActive(w) ==
    /\ pc[w] = "run_locked"
    /\ lock = w
    /\ active' = Activated(active)
    /\ lock' = NoOwner
    /\ \E r \in Raising(Bundle(entry[w]), "start") :
         /\ cb' = [cb EXCEPT ![w] =
                Invoke(@, Bundle(entry[w]), StartPayload(urls[w][idx[w]]))]
         /\ cbRaised' = (cbRaised \/ r)
         /\ IF Escapes(r)
            THEN /\ result' = [result EXCEPT ![w] = "CallbackError"]
                 /\ pc' = [pc EXCEPT ![w] = "done"]
                 /\ UNCHANGED attempted
            ELSE /\ attempted' = [attempted EXCEPT ![w] = Append(@, idx[w])]
                 /\ pc' = [pc EXCEPT ![w] = "ext"]
                 /\ UNCHANGED result
    /\ UNCHANGED <<abort_event, entry, urls, idx, bcb, outcomes, exc, posted, histVars>>
    /\ UNCHANGED auxVars

\* variant without a terminal callback
TerminalPayloadNone(o, u) == ProgressPayload(u)

\* The callback of the except/else branch taken for ending o of url u.
TerminalPayload(o, u) ==
    CASE o.kind = "ok"      -> CompletePayload(u)
      [] o.kind = "aborted" -> AbortPayload(u, o.error)
      [] o.kind = "kbi"     -> AbortPayload(u, "KeyboardInterrupt")
      [] o.kind = "err"     -> ErrorPayload(u, o.error)

\* variant that raises the text of the ending instead of DownloadAborted
PropagatedText(o) == IF o.kind = "ok" THEN "none" ELSE o.error

\* variant that swallows every error
PropagatedNothing(o) == "none"

\* What the branch raises: "raise", "raise DownloadAborted(...)", or nothing.
Propagated(o) ==
    CASE o.kind = "ok"      -> "none"
      [] o.kind = "aborted" -> "DownloadAborted"
      [] o.kind = "kbi"     -> "DownloadAborted"
      [] o.kind = "err"     -> o.error

\* variant in which the end of the external call clears the signal
SignalAfterCleared(o, a) == FALSE

\* The signal after the branch for ending o: "self.abort_event.set()" in the
\* KeyboardInterrupt branch, no other branch touches it.
SignalAfter(o, a) == IF o.kind = "kbi" THEN SetSignal(a) ELSE a

\* The external call has ended in o with log l of the bundle; was = an earlier
\* callback of this step raised.  The except/else branch of _run_download
\* runs: the KeyboardInterrupt branch sets the signal, the branch's callback is
\* invoked, and the branch raises or falls through to the finally block.
Handle(w, o, l, was) ==
    \E r \in Raising(Bundle(entry[w]), TerminalPayload(o, UiUrl).ev) :
       /\ outcomes' = [outcomes EXCEPT ![w] = Append(@, o)]
       /\ abort_event' = SignalAfter(o, abort_event)
       /\ cb' = [cb EXCEPT ![w] =
              Invoke(l, Bundle(entry[w]), TerminalPayload(o, urls[w][idx[w]]))]
       /\ cbRaised' = (cbRaised \/ was \/ r)
       /\ exc' = [exc EXCEPT ![w] = IF Escapes(r) THEN "CallbackError" ELSE Propagated(o)]
       /\ pc' = [pc EXCEPT ![w] = "cleanup"]

\* variant of the hook that never looks at the signal
HookRaisesNever(a) == FALSE

\* _hook: "if self.abort_event.is_set(): raise DownloadAborted"
HookRaises(a) == a

\* The external call invokes the progress hook (_progress_hook_factory._hook):
\* it raises DownloadAborted, which ends the external call, or forwards the
\* event to on_progress.
Hook(w) ==
    /\ pc[w] = "ext"
    /\ IF HookRaises(abort_event)
       THEN Handle(w, [kind |-> "aborted", error |-> "aborted by user"], cb[w], FALSE)
       ELSE /\ Count(cb[w], "progress") < MaxHooks
            /\ \E r \in Raising(Bundle(entry[w]), "progress") :
                 LET l == Invoke(cb[w], Bundle(entry[w]), ProgressPayload(urls[w][idx[w]]))
                 IN  IF Escapes(r)
                     THEN Handle(w, [kind |-> "err", error |-> "CallbackError"], l, r)
                     ELSE /\ cb' = [cb EXCEPT ![w] = l]
                          /\ cbRaised' = (cbRaised \/ r)
                          /\ UNCHANGED <<abort_event, outcomes, exc, pc>>
    /\ UNCHANGED <<active, lock, entry, urls, idx, bcb, attempted, result, posted,
                   histVars>>
    /\ UNCHANGED auxVars

\* How the external call can end by itself.
ExtEndings ==
    {[kind |-> "ok", error |-> ""], [kind |-> "kbi", error |-> "KeyboardInterrupt"]}
    \cup {[kind |-> "err", error |-> e] : e \in ExtErrors}

\* ydl.download returns, raises an error, or a KeyboardInterrupt arrives.
ExtFinish(w) ==
    /\ pc[w] = "ext"
    /\ \E o \in ExtEndings : Handle(w, o, cb[w], FALSE)
    /\ UNCHANGED <<active, lock, entry, urls, idx, bcb, attempted, result, posted,
                   histVars>>
    /\ UNCHANGED auxVars

\* variant without the reset of the finally block
DeactivatedKept(a) == a

\* "finally: with self._lock: self._active = False"
Deactivated(a) == FALSE

\* variant of the loop that treats a cancellation like any other error
ListReraisesNone(e) == FALSE

\* variant of the loop that re-raises every exception of an item
ListReraisesAll(e) == e # "none"

\* What download_url_list does with exception e of an item's _run_download:
\* DownloadAborted is re-raised, any other is reported and the loop continues.
ListReraises(e) == e = "DownloadAborted"

\* The window event the except block of a download worker of ui.py posts.
WorkerErrorEvent(e) ==
    CASE e = "video"    -> "--DOWNLOAD-ERROR--"
      [] e = "live"     -> "--LIVE-DOWNLOAD-ERROR--"
      [] e = "playlist" -> "--RENZOKU-DOWNLOAD-ERROR--"

\* worker_download_single / worker_download_playlist around the manager's
\* method: "except DownloadAborted: (log)  except Exception as e: post_event"
WorkerExcept(e, x, l) ==
    IF e \in SingleEntries /\ x \notin {"none", "DownloadAborted"}
    THEN Append(l, [ev |-> WorkerErrorEvent(e), total |-> 0])
    ELSE l

\* The finally block, then control is back in the caller of _run_download:
\* download_video / download_playlist_simple pass everything on;
\* download_url_list re-raises DownloadAborted, reports any other error
\* through the batch on_error and continues with the next item; the window's
\* worker of a single download or playlist handles what the method raised.
Cleanup(w) ==
    /\ pc[w] = "cleanup"
    /\ lock = NoOwner
    /\ active' = Deactivated(active)
    /\ IF entry[w] = "url_list" /\ ~ListReraises(exc[w])
       THEN IF exc[w] = "none"
            THEN /\ idx' = [idx EXCEPT ![w] = @ + 1]
                 /\ pc' = [pc EXCEPT ![w] = "list_check"]
                 /\ UNCHANGED <<bcb, result, cbRaised>>
            ELSE \E r \in Raising(Bundle("url_list"), "error") :
                 /\ bcb' = [bcb EXCEPT ![w] =
                        Invoke(@, Bundle("url_list"),
                               BatchItemError(idx[w], Len(urls[w]), urls[w][idx[w]],
                                              exc[w]))]
                 /\ cbRaised' = (cbRaised \/ r)
                 /\ IF Escapes(r)
                    THEN /\ ListEnds(w, "CallbackError")
                         /\ UNCHANGED idx
                    ELSE /\ idx' = [idx EXCEPT ![w] = @ + 1]
                         /\ pc' = [pc EXCEPT ![w] = "list_check"]
                         /\ UNCHANGED result
       ELSE /\ result' = [result EXCEPT ![w] =
                   IF exc[w] = "none" THEN "returned" ELSE exc[w]]
            /\ pc' = [pc EXCEPT ![w] = "done"]
            /\ UNCHANGED <<bcb, idx, cbRaised>>
    /\ posted' = [posted EXCEPT ![w] = WorkerExcept(entry[w], exc[w], @)]
    /\ UNCHANGED <<abort_event, lock, entry, urls, cb, outcomes, attempted, exc,
                   histVars>>
    /\ UNCHANGED auxVars

(* ------------------- the window's URL list worker --------------------- *)

\* ui.main, event "連続ダウンロード開始", input that is an existing path:
\* run_in_thread(worker_download_url_list, ...)
UiStartUrlList(w) ==
    /\ Fresh(w)
    /\ \A v \in Workers : entry[v] # "url_list"
    /\ pc' = [pc EXCEPT ![w] = "ul_count"]
    /\ entry' = [entry EXCEPT ![w] = "ui_url_list"]
    /\ UNCHANGED <<mgrVars, urls, idx, cb, bcb, outcomes, attempted, exc, result, posted,
                   histVars, cbRaised>>
    /\ UNCHANGED auxVars

\* ui.worker_download_url_list: counts the non-blank lines and posts
\* --URL-LIST-START--, or --URL-LIST-FILE-ERROR-- when the file cannot be
\* read.  The call of manager.download_url_list sits after the return
\* statement of the nested per_item_factory, so the worker ends here.
UiUrlListWorker(w) ==
    /\ pc[w] = "ul_count"
    /\ \E f \in Files, readable \in BOOLEAN :
         posted' = [posted EXCEPT ![w] =
            IF readable
            THEN <<[ev |-> "--URL-LIST-START--", total |-> Len(ReadUrls(f))]>>
            ELSE <<[ev |-> "--URL-LIST-FILE-ERROR--", total |-> 0]>>]
    /\ pc' = [pc EXCEPT ![w] = "done"]
    /\ UNCHANGED <<mgrVars, entry, urls, idx, cb, bcb, outcomes, attempted, exc, result,
                   histVars, cbRaised>>
    /\ UNCHANGED auxVars

(* ------------------- registry and SIGINT handlers --------------------- *)

Mgrs == 1..MaxMgrs
\* "no manager" in rarg
NoMgr == 0
\* the manager constructed by ui.main
UiManager == 1
\* threads that construct managers and call the registry functions
RegThreads == {1, 2}
\* the main thread: Python runs signal handlers on it
MainThread == 1
\* regLock value while the SIGINT handler holds the lock
HandlerOwner == 3

\* "mgr in _registered_managers"
Member(l, m) == \E i \in 1..Len(l) : l[i] = m

\* list.remove(m): the first occurrence of m is taken out
RECURSIVE RemoveFirst(_, _)
RemoveFirst(l, m) ==
    IF l = <<>> THEN <<>>
    ELSE IF Head(l) = m THEN Tail(l)
    ELSE <<Head(l)>> \o RemoveFirst(Tail(l), m)

\* variant of _register_manager without the membership test
RegisteredAlways(l, m) == Append(l, m)

\* _register_manager: "if mgr not in _registered_managers: append(mgr)"
Registered(l, m) == IF ~Member(l, m) THEN Append(l, m) ELSE l

\* _unregister_manager: "if mgr in _registered_managers: remove(mgr)"
Unregistered(l, m) == IF Member(l, m) THEN RemoveFirst(l, m) ELSE l

\* "try: mgr.stop() except Exception: logger.exception(...)": whether a
\* failure f of stop() leaves the guard.
StopEscapes(f) == FALSE

\* "for mgr in list(_registered_managers): mgr.stop()" over the snapshot l,
\* stop() failing for the managers in fails: the managers whose stop() is
\* invoked, in order.
RECURSIVE Broadcast(_, _)
Broadcast(l, fails) ==
    IF l = <<>> THEN <<>>
    ELSE IF StopEscapes(Head(l) \in fails) THEN <<Head(l)>>
    ELSE <<Head(l)>> \o Broadcast(Tail(l), fails)

\* The main thread's own code stands still while a signal handler runs on it.
Suspended(t) == t = MainThread /\ sig # "none"

\* Thread t enters _register_manager / _unregister_manager with manager m:
\* "with _registered_managers_lock:" is passed once the lock is free.
BeginCall(t, op, m) ==
    /\ handler = "broadcast"
    /\ rpc[t] = "idle"
    /\ ~Suspended(t)
    /\ regLock = NoOwner
    /\ ncalls < MaxRegCalls
    /\ regLock' = t
    /\ rpc' = [rpc EXCEPT ![t] = op]
    /\ rarg' = [rarg EXCEPT ![t] = m]
    /\ ncalls' = ncalls + 1
    /\ UNCHANGED <<registry, handler, sig, sigs, snapshot, invoked, lastOp, dupReg,
                   noopUnreg>>
    /\ UNCHANGED nonRegVars

\* DownloadManager.__init__: a new manager calls _register_manager(self).
Construct(t) ==
    \E m \in Mgrs :
       /\ life[m] = "none"
       /\ \A k \in Mgrs : k < m => life[k] # "none"
       /\ life' = [life EXCEPT ![m] = "live"]
       /\ BeginCall(t, "reg", m)

\* _register_manager(m) called directly with a manager the caller refers to.
CallRegister(t) ==
    \E m \in Mgrs :
       /\ life[m] = "live"
       /\ \A u \in RegThreads : rarg[u] # m
       /\ UNCHANGED life
       /\ BeginCall(t, "reg", m)

\* _unregister_manager(m) called directly: with a manager the caller refers
\* to, or with one taken from the module's list.
CallUnregister(t) ==
    \E m \in Mgrs :
       /\ \/ life[m] = "live"
          \/ life[m] = "released" /\ Member(registry, m)
       /\ \A u \in RegThreads : rarg[u] # m
       /\ UNCHANGED life
       /\ BeginCall(t, "unreg", m)

\* _register_manager, inside the lock: the membership test and the append;
\* the lock is released.
EndRegister(t) ==
    /\ rpc[t] = "reg"
    /\ ~Suspended(t)
    /\ registry' = Registered(registry, rarg[t])
    /\ regLock' = NoOwner
    /\ rpc' = [rpc EXCEPT ![t] = "idle"]
    /\ rarg' = [rarg EXCEPT ![t] = NoMgr]
    /\ lastOp' = [lastOp EXCEPT ![rarg[t]] = "reg"]
    /\ dupReg' = (dupReg \/ Member(registry, rarg[t]))
    /\ UNCHANGED <<life, handler, sig, sigs, snapshot, invoked, ncalls, noopUnreg>>
    /\ UNCHANGED nonRegVars

\* _unregister_manager, inside the lock: the membership test and the remove;
\* the lock is released.  A manager nobody refers to any more is destroyed
\* when the list lets go of it (its __del__ calls _unregister_manager once
\* more, which finds it absent).
EndUnregister(t) ==
    /\ rpc[t] = "unreg"
    /\ ~Suspended(t)
    /\ registry' = Unregistered(registry, rarg[t])
    /\ regLock' = NoOwner
    /\ rpc' = [rpc EXCEPT ![t] = "idle"]
    /\ rarg' = [rarg EXCEPT ![t] = NoMgr]
    /\ lastOp' = [lastOp EXCEPT ![rarg[t]] = "unreg"]
    /\ noopUnreg' = (noopUnreg \/ ~Member(registry, rarg[t]))
    /\ life' = [life EXCEPT ![rarg[t]] = IF @ = "released" THEN "destroyed" ELSE @]
    /\ UNCHANGED <<handler, sig, sigs, snapshot, invoked, ncalls, dupReg>>
    /\ UNCHANGED nonRegVars

\* The callers drop their last reference to manager m.  An object is
\* destroyed, and DownloadManager.__del__ runs, when nothing refers to it: the
\* list _registered_managers refers to its members.
Drop(m) ==
    /\ handler = "broadcast"
    /\ life[m] = "live"
    /\ \A t \in RegThreads : rarg[t] # m
    /\ life' = [life EXCEPT ![m] = IF Member(registry, m) THEN "released" ELSE "destroyed"]
    /\ UNCHANGED <<registry, regLock, rpc, rarg, handler, sig, sigs, snapshot, invoked,
                   lastOp, ncalls, dupReg, noopUnreg>>
    /\ UNCHANGED nonRegVars

\* SIGINT arrives while downloader._sigint_handler is installed: the handler
\* starts on the main thread and reaches "with _registered_managers_lock:".
Sigint ==
    /\ handler = "broadcast"
    /\ sig = "none"
    /\ sigs < MaxSigs
    /\ sig' = "waiting"
    /\ sigs' = sigs + 1
    /\ UNCHANGED <<registry, regLock, rpc, rarg, life, handler, snapshot, invoked, lastOp,
                   ncalls, dupReg, noopUnreg>>
    /\ UNCHANGED nonRegVars

\* The handler acquires the registry lock: threading.Lock is not reentrant
\* and knows no owner, so the handler waits for whoever holds it.
HandlerAcquire ==
    /\ sig = "waiting"
    /\ regLock = NoOwner
    /\ regLock' = HandlerOwner
    /\ sig' = "locked"
    /\ UNCHANGED <<registry, rpc, rarg, life, handler, sigs, snapshot, invoked, lastOp,
                   ncalls, dupReg, noopUnreg>>
    /\ UNCHANGED nonRegVars

\* _sigint_handler inside the lock: stop() on every manager of a copy of the
\* list; the lock is released and the handler returns.
HandlerBroadcast ==
    /\ sig = "locked"
    /\ \E fails \in SUBSET Mgrs : invoked' = Broadcast(registry, fails)
    /\ snapshot' = registry
    /\ regLock' = NoOwner
    /\ sig' = "none"
    /\ UNCHANGED <<registry, rpc, rarg, life, handler, sigs, lastOp, ncalls, dupReg,
                   noopUnreg>>
    /\ UNCHANGED nonRegVars

\* ui.main: after "manager = DownloadManager()" it installs its own handler
\* with signal.signal(SIGINT, _on_sigint), which replaces _sigint_handler.
\* ui.main constructs no other manager and never calls the registry functions.
UiInstallHandler ==
    /\ handler = "broadcast"
    /\ sig = "none"
    /\ registry = <<UiManager>>
    /\ \A m \in Mgrs : life[m] = IF m = UiManager THEN "live" ELSE "none"
    /\ \A t \in RegThreads : rpc[t] = "idle"
    /\ handler' = "ui"
    /\ UNCHANGED <<registry, regLock, rpc, rarg, life, sig, sigs, snapshot, invoked, lastOp,
                   ncalls, dupReg, noopUnreg>>
    /\ UNCHANGED nonRegVars

\* SIGINT while ui.main's _on_sigint is installed: manager.stop(), then the
\* event --APP-EXIT-- is posted.
UiSigint ==
    /\ handler = "ui"
    /\ sigs < MaxSigs
    /\ sigs' = sigs + 1
    /\ snapshot' = registry
    /\ invoked' = <<UiManager>>
    /\ UNCHANGED <<registry, regLock, rpc, rarg, life, handler, sig, lastOp, ncalls, dupReg,
                   noopUnreg>>
    /\ UNCHANGED nonRegVars

\* The registry after "import downloader": the list is empty, the module's
\* handler is installed by enable_ctrl_c_abort().
RegInit ==
    /\ registry = <<>>
    /\ regLock = NoOwner
    /\ rpc = [t \in RegThreads |-> "idle"]
    /\ rarg = [t \in RegThreads |-> NoMgr]
    /\ life = [m \in Mgrs |-> "none"]
    /\ handler = "broadcast"
    /\ sig = "none"
    /\ sigs = 0
    /\ snapshot = <<>>
    /\ invoked = <<>>
    /\ lastOp = [m \in Mgrs |-> "none"]
    /\ ncalls = 0
    /\ dupReg = FALSE
    /\ noopUnreg = FALSE

(* ------------------ the abort signal as an object --------------------- *)

\* abort_event.set(), as stop() and the KeyboardInterrupt branch call it
EventSet ==
    /\ Len(calls) < MaxCalls
    /\ abort_event' = SetSignal(abort_event)
    /\ calls' = Append(calls, "set")
    /\ prevFlag' = abort_event
    /\ UNCHANGED nonEvVars

\* abort_event.clear(), as the start step of _run_download calls it
EventClear ==
    /\ Len(calls) < MaxCalls
    /\ abort_event' = ClearSignal(abort_event)
    /\ calls' = Append(calls, "clear")
    /\ prevFlag' = abort_event
    /\ UNCHANGED nonEvVars

\* threading.Event() in DownloadManager.__init__: no call yet, flag false
EvInit ==
    /\ calls = <<>>
    /\ prevFlag = FALSE

(* ---------------- output template and ydl_opts ------------------------ *)

\* A mode argument: None, or a string.  word is the string without its
\* surrounding white space and in lower case; deco says that the string has
\* surrounding white space and upper-case letters ("" with deco: white space).
NoneArg == [isNone |-> TRUE, word |-> "", deco |-> FALSE]
Lit(w) == [isNone |-> FALSE, word |-> w, deco |-> FALSE]
ModeWords == {"embed", "separate", "none", "other", ""}
ModeArgs ==
    {NoneArg} \cup {[isNone |-> FALSE, word |-> w, deco |-> d] : w \in ModeWords,
                                                                d \in BOOLEAN}

\* Python truth value of "x": None and "" are false, every other string true
Truthy(x) == ~x.isNone /\ ~(x.word = "" /\ ~x.deco)

\* x.strip().lower()
StripLower(x) == [isNone |-> FALSE, word |-> x.word, deco |-> FALSE]

\* ("embed", "separate", "none")
ValidModes == {Lit("embed"), Lit("separate"), Lit("none")}

\* set_metadata_mode: normalized = (mode or "").strip().lower(); anything
\* but the three modes becomes "embed"
NormalizeMode(x) ==
    LET n == StripLower(IF Truthy(x) THEN x ELSE Lit(""))
    IN  IF n \notin ValidModes THEN Lit("embed") ELSE n

\* _build_ydl_opts:
\* (metadata_mode or getattr(self, "metadata_mode", "embed") or "embed").strip().lower()
EffectiveMode(percall, m) ==
    StripLower(IF Truthy(percall) THEN percall
               ELSE IF Truthy(m) THEN m ELSE Lit("embed"))

\* A path string: abs = it starts with a separator, comps = its components,
\* trail = it ends with a separator.
PathNames == {"dir", "file"}
CompLists == UNION {[1..n -> PathNames] : n \in 0..MaxDirs}
PathStrings ==
    {[abs |-> a, comps |-> c, trail |-> t] :
        a \in BOOLEAN, c \in CompLists, t \in BOOLEAN} \
    {x \in [abs : BOOLEAN, comps : {<<>>}, trail : BOOLEAN] : x.trail}

DefaultTemplate == "%(title)s.%(ext)s"
IndexedTemplate == "%(playlist_index)s - %(title)s.%(ext)s"

\* Path(s): pathlib keeps the anchor and the components, not a trailing separator
PathOf(s) == [abs |-> s.abs, comps |-> s.comps]

\* p / name
Joined(p, name) == [p EXCEPT !.comps = Append(@, name)]

\* _to_outtmpl: str(path_or_tmpl), of a string or of a Path
StrOfPath(p) == [abs |-> p.abs, comps |-> p.comps, trail |-> FALSE]
ToOuttmpl(s) == s

\* download_video: "outtmpl を決める"
VideoOuttmpl(single, s) ==
    IF single THEN ToOuttmpl(s)
    ELSE StrOfPath(Joined(PathOf(s), DefaultTemplate))

\* A URL: the parts it is made of, in order.
UrlParts == {"playlist", "channel", "watch"}
Urls == UNION {[1..n -> UrlParts] : n \in 1..MaxUrlLen}

\* variant that looks at the beginning of the URL only
IsPlaylistPrefix(u) == u[1] \in {"playlist", "channel"}

\* any(key in url for key in ("playlist", "channel"))
IsPlaylistLike(u) == \E i \in 1..Len(u) : u[i] \in {"playlist", "channel"}

\* download_playlist_simple: base_template and outtmpl
PlaylistOuttmpl(u, s) ==
    StrOfPath(Joined(PathOf(s),
                     IF IsPlaylistLike(u) THEN IndexedTemplate ELSE DefaultTemplate))

\* _build_ydl_opts: the options this model looks at
BuildYdlOpts(outtmpl, live, percall, m) ==
    LET mode == EffectiveMode(percall, m)
    IN  [built |-> TRUE,
         outtmpl |-> outtmpl,
         live |-> live,
         addmetadata |-> mode = Lit("embed"),
         writeinfojson |-> mode = Lit("separate")]

NoRequest == [method |-> "none"]
NoOpts == [built |-> FALSE]

\* DownloadManager.set_metadata_mode(x)
SetMetadataMode ==
    /\ \E x \in ModeArgs :
         /\ meta' = NormalizeMode(x)
         /\ metaRaw' = x
    /\ UNCHANGED <<req, opts>>
    /\ UNCHANGED nonBuildVars

\* download_video / download_livestream up to the call of _run_download
BuildVideo ==
    /\ ~opts.built
    /\ \E single \in BOOLEAN, s \in PathStrings, live \in BOOLEAN, x \in ModeArgs :
         /\ req' = [method |-> "video", single |-> single, path |-> s, live |-> live,
                    mode |-> x]
         /\ opts' = BuildYdlOpts(VideoOuttmpl(single, s), live, x, meta)
    /\ UNCHANGED <<meta, metaRaw>>
    /\ UNCHANGED nonBuildVars

\* download_playlist_simple up to the call of _run_download
BuildPlaylist ==
    /\ ~opts.built
    /\ \E u \in Urls, s \in PathStrings, x \in ModeArgs :
         /\ req' = [method |-> "playlist", url |-> u, path |-> s, mode |-> x]
         /\ opts' = BuildYdlOpts(PlaylistOuttmpl(u, s), FALSE, x, meta)
    /\ UNCHANGED <<meta, metaRaw>>
    /\ UNCHANGED nonBuildVars

\* the download method returns: outtmpl and ydl_opts are its locals
BuildReturn ==
    /\ opts.built
    /\ req' = NoRequest
    /\ opts' = NoOpts
    /\ UNCHANGED <<meta, metaRaw>>
    /\ UNCHANGED nonBuildVars

\* a new manager has no metadata_mode attribute; nothing was requested yet
BuildInit ==
    /\ meta = NoneArg
    /\ metaRaw = NoneArg
    /\ req = NoRequest
    /\ opts = NoOpts

(* ------------------------------ fetch_info ---------------------------- *)

\* The info dictionary of a URL, as far as its readers look at it: it is empty,
\* or has a live flag and possibly a title.
EmptyInfo == [empty |-> TRUE, live |-> FALSE, title |-> FALSE]
Infos ==
    {EmptyInfo} \cup {[empty |-> FALSE, live |-> l, title |-> t] : l, t \in BOOLEAN}

\* What ydl.extract_info can do: raise, return None, return a dictionary.
ProbeOutcomes ==
    {[kind |-> "raise", error |-> e, info |-> EmptyInfo] : e \in ExtErrors}
    \cup {[kind |-> "none", error |-> "", info |-> EmptyInfo]}
    \cup {[kind |-> "info", error |-> "", info |-> i] : i \in Infos}

\* ydl_opts of fetch_info and the download argument of extract_info: no
\* progress hook is given and nothing is downloaded
ProbeRequest == [download |-> FALSE, hooks |-> FALSE]
NoProbe == [download |-> FALSE, hooks |-> FALSE, asked |-> FALSE]

\* variant that swallows the error and returns an empty dictionary
FetchedQuietly(o) == [kind |-> "returned", error |-> "", info |-> o.info]

\* fetch_info after the probe: "info = ... or {}; return info", and
\* "except Exception as e: logger.exception(...); raise"
Fetched(o) ==
    IF o.kind = "raise"
    THEN [kind |-> "raised", error |-> o.error, info |-> EmptyInfo]
    ELSE [kind |-> "returned", error |-> "",
          info |-> IF o.kind = "none" \/ o.info.empty THEN EmptyInfo ELSE o.info]

NoFetch == [kind |-> "pending", error |-> "", info |-> EmptyInfo]
NoOutcome == [kind |-> "pending", error |-> "", info |-> EmptyInfo]

\* fetch_info is called (while downloads may run):
\* it builds its options and calls ydl.extract_info(url, download=False)
CallFetchInfo ==
    /\ fpc = "idle"
    /\ fpc' = "probe"
    /\ fopts' = [download |-> ProbeRequest.download, hooks |-> ProbeRequest.hooks,
                 asked |-> TRUE]
    /\ fraw' = NoOutcome
    /\ fresult' = NoFetch

\* a caller other than the window's workers calls fetch_info
FetchCall ==
    /\ CallFetchInfo
    /\ UNCHANGED nonFetchVars

\* the external probe ends and fetch_info returns or raises
FetchEnd ==
    /\ fpc = "probe"
    /\ \E o \in ProbeOutcomes :
         /\ fraw' = o
         /\ fresult' = Fetched(o)
    /\ fpc' = "done"
    /\ UNCHANGED fopts
    /\ UNCHANGED nonFetchVars

\* the caller has used the result; the thread ends
FetchForget ==
    /\ fpc = "done"
    /\ fkind = "none"
    /\ fpc' = "idle"
    /\ fopts' = NoProbe
    /\ fraw' = NoOutcome
    /\ fresult' = NoFetch
    /\ UNCHANGED nonFetchVars

FetchInit ==
    /\ fpc = "idle"
    /\ fopts = NoProbe
    /\ fraw = NoOutcome
    /\ fresult = NoFetch

(* ----------------------- info-fetch workers --------------------------- *)

\* An event posted to the window: its key, the keys of its payload, and
\* whether the title of the payload is a non-empty string.
WindowEvent(e, ks, t) == [ev |-> e, keys |-> ks, title |-> t]

\* worker_fetch_video_info after manager.fetch_info(url)
VideoInfoEvent(res) ==
    IF res.kind = "raised" THEN WindowEvent("--VIDEO-INFO-ERROR--", {"error"}, FALSE)
    ELSE IF res.info.empty THEN WindowEvent("--VIDEO-INFO-ERROR--", {"error"}, FALSE)
    ELSE IF res.info.live
         THEN WindowEvent("--VIDEO-INFO-LIVE--", {"title", "url"}, res.info.title)
         ELSE WindowEvent("--VIDEO-INFO-READY--", {"title", "formats"}, res.info.title)

\* worker_fetch_live_info after manager.fetch_info(url)
LiveInfoEvent(res) ==
    IF res.kind = "raised" THEN WindowEvent("--LIVE-INFO-ERROR--", {"error"}, FALSE)
    ELSE IF res.info.empty THEN WindowEvent("--LIVE-INFO-ERROR--", {"error"}, FALSE)
    ELSE IF ~res.info.live THEN WindowEvent("--LIVE-INFO-ERROR--", {"error"}, FALSE)
    ELSE WindowEvent("--LIVE-INFO-READY--", {"title", "formats"}, res.info.title)

\* variant in which both workers treat the result as the video worker does
WorkerEventVideo(k, res) == VideoInfoEvent(res)

\* the event worker k posts for result res of fetch_info
WorkerEvent(k, res) == IF k = "video" THEN VideoInfoEvent(res) ELSE LiveInfoEvent(res)

\* run_in_thread(worker_fetch_..._info, manager, url, window): the worker
\* calls manager.fetch_info(url)
UiFetch(k) ==
    /\ CallFetchInfo
    /\ fkind' = k
    /\ fposted' = <<>>
    /\ UNCHANGED nonWorkerVars

\* ui.main, event "さらなる情報を取得" with a URL given
UiFetchVideoInfo == UiFetch("video")

\* ui.main, event "生配信情報取得" with a URL given
UiFetchLiveInfo == UiFetch("live")

\* the worker posts its event: in the try block after fetch_info returned, or
\* in the except block after it raised
WorkerPost ==
    /\ fpc = "done"
    /\ fkind # "none"
    /\ fposted' = Append(fposted, WorkerEvent(fkind, fresult))
    /\ fpc' = "posted"
    /\ UNCHANGED <<fopts, fraw, fresult, fkind>>
    /\ UNCHANGED nonWorkerVars

\* the worker returns and its thread ends
WorkerEnd ==
    /\ fpc = "posted"
    /\ fpc' = "idle"
    /\ fopts' = NoProbe
    /\ fraw' = NoOutcome
    /\ fresult' = NoFetch
    /\ fkind' = "none"
    /\ fposted' = <<>>
    /\ UNCHANGED nonWorkerVars

FwInit ==
    /\ fkind = "none"
    /\ fposted = <<>>

(* ------------------------ prototype (main.py) ------------------------- *)

\* threads started for download_video / download_livestream
ProtoWorkers == {1, 2}
\* current_download_process = None
NoProcess == 0

\* downloads whose download([url]) is running and whose downloader no
\* stop_download() has marked
InFlight == {w \in ProtoWorkers : ppc[w] = "run" /\ ~pabort[w]}

\* the window's thread starts a thread with target download_video or
\* download_livestream; the thread posts its start event and builds ydl_opts
ProtoStart(w) ==
    /\ ppc[w] = "idle"
    /\ ppc' = [ppc EXCEPT ![w] = "built"]
    /\ UNCHANGED <<current_download_process, pabort, spc, stopCalls, stopRet,
                   stopMarked, stopFlight>>
    /\ UNCHANGED nonProtoVars

\* "current_download_process = yt_dlp.YoutubeDL(ydl_opts)", then download([url])
\* is entered
ProtoAssign(w) ==
    /\ ppc[w] = "built"
    /\ current_download_process' = w
    /\ ppc' = [ppc EXCEPT ![w] = "run"]
    /\ UNCHANGED <<pabort, spc, stopCalls, stopRet, stopMarked, stopFlight>>
    /\ UNCHANGED nonProtoVars

\* "current_download_process = None" after download([url]) or in the except block
ProtoReset(c, w) == NoProcess

\* download([url]) returns or raises; the global is reset and the terminal
\* event is posted
ProtoFinish(w) ==
    /\ ppc[w] = "run"
    /\ current_download_process' = ProtoReset(current_download_process, w)
    /\ ppc' = [ppc EXCEPT ![w] = "done"]
    /\ UNCHANGED <<pabort, spc, stopCalls, stopRet, stopMarked, stopFlight>>
    /\ UNCHANGED nonProtoVars

\* stop_download(): "if current_download_process:"; None: "return False"
StopDownloadBegin ==
    /\ spc = "out"
    /\ stopCalls < MaxStopCalls
    /\ stopCalls' = stopCalls + 1
    /\ IF current_download_process # NoProcess
       THEN /\ spc' = "in"
            /\ UNCHANGED <<stopRet, stopMarked, stopFlight>>
       ELSE /\ spc' = "out"
            /\ stopRet' = "False"
            /\ stopMarked' = NoProcess
            /\ stopFlight' = InFlight
    /\ UNCHANGED <<current_download_process, ppc, pabort>>
    /\ UNCHANGED nonProtoVars

\* stop_download(), inside the try: the global is read again; a downloader
\* has params, None has not; the global is reset; "return True"
StopDownloadMark ==
    /\ spc = "in"
    /\ pabort' = IF current_download_process # NoProcess
                 THEN [pabort EXCEPT ![current_download_process] = TRUE]
                 ELSE pabort
    /\ stopMarked' = current_download_process
    /\ current_download_process' = NoProcess
    /\ stopRet' = "True"
    /\ stopFlight' = InFlight
    /\ spc' = "out"
    /\ UNCHANGED <<ppc, stopCalls>>
    /\ UNCHANGED nonProtoVars

ProtoInit ==
    /\ current_download_process = NoProcess
    /\ ppc = [w \in ProtoWorkers |-> "idle"]
    /\ pabort = [w \in ProtoWorkers |-> FALSE]
    /\ spc = "out"
    /\ stopCalls = 0
    /\ stopRet = "none"
    /\ stopMarked = NoProcess
    /\ stopFlight = {}

(* --------------------------- specification ---------------------------- *)

DlInit ==
    /\ abort_event = FALSE
    /\ active = FALSE
    /\ lock = NoOwner
    /\ pc = [w \in Workers |-> "idle"]
    /\ entry = [w \in Workers |-> "none"]
    /\ urls = [w \in Workers |-> <<>>]
    /\ idx = [w \in Workers |-> 1]
    /\ cb = [w \in Workers |-> <<>>]
    /\ bcb = [w \in Workers |-> <<>>]
    /\ outcomes = [w \in Workers |-> <<>>]
    /\ attempted = [w \in Workers |-> <<>>]
    /\ exc = [w \in Workers |-> "none"]
    /\ result = [w \in Workers |-> "none"]
    /\ posted = [w \in Workers |-> <<>>]
    /\ stops = 0
    /\ stopsAtCall = [w \in Workers |-> 0]
    /\ mark = [w \in Workers |-> "none"]
    /\ overlap = FALSE
    /\ cbRaised = FALSE

\* In Spec the registry stays as it is after the import of the module.
Init == DlInit /\ RegInit /\ EvInit /\ BuildInit /\ FetchInit /\ FwInit /\ ProtoInit

Next ==
    \/ Stop
    \/ \E w \in Workers : UiStartSingle(w)
    \/ \E w \in Workers : UiStartLive(w)
    \/ \E w \in Workers : UiStartPlaylist(w)
    \/ \E w \in Workers : UiStartUrlList(w)
    \/ \E w \in Workers : UiUrlListWorker(w)
    \/ \E w \in Workers : CallUrlList(w)
    \/ \E w \in Workers : ListCheck(w)
    \/ \E w \in Workers : RunClear(w)
    \/ \E w \in Workers : RunActive(w)
    \/ \E w \in Workers : Hook(w)
    \/ \E w \in Workers : ExtFinish(w)
    \/ \E w \in Workers : Cleanup(w)

Spec == Init /\ [][Next]_vars

\* The registry and the SIGINT handlers of one process; no download runs.
RegNext ==
    \/ \E t \in RegThreads : Construct(t)
    \/ \E t \in RegThreads : CallRegister(t)
    \/ \E t \in RegThreads : CallUnregister(t)
    \/ \E t \in RegThreads : EndRegister(t)
    \/ \E t \in RegThreads : EndUnregister(t)
    \/ \E m \in Mgrs : Drop(m)
    \/ Sigint
    \/ HandlerAcquire
    \/ HandlerBroadcast
    \/ UiInstallHandler
    \/ UiSigint

RegSpec == Init /\ [][RegNext]_vars

\* The same with the scheduling of the interpreter: a thread that is inside a
\* registry function and is not suspended goes on, and the handler gets the
\* lock once it is free and then goes on.
RegFairSpec ==
    /\ Init /\ [][RegNext]_vars
    /\ \A t \in RegThreads : WF_vars(EndRegister(t)) /\ WF_vars(EndUnregister(t))
    /\ SF_vars(HandlerAcquire)
    /\ WF_vars(HandlerBroadcast)

\* Any sequence of set() and clear() calls on the abort signal of a manager.
EventNext ==
    \/ EventSet
    \/ EventClear

EventSpec == Init /\ [][EventNext]_vars

\* Calls of set_metadata_mode and of the download methods, as far as the
\* options handed to yt-dlp are concerned.
BuildNext ==
    \/ SetMetadataMode
    \/ BuildVideo
    \/ BuildPlaylist
    \/ BuildReturn

BuildSpec == Init /\ [][BuildNext]_vars

\* fetch_info called while the window's single downloads start, run, are
\* stopped and end.
FetchNext ==
    \/ FetchCall
    \/ FetchEnd
    \/ FetchForget
    \/ Stop
    \/ \E w \in Workers : UiStartSingle(w)
    \/ \E w \in Workers : RunClear(w)
    \/ \E w \in Workers : RunActive(w)
    \/ \E w \in Workers : Hook(w)
    \/ \E w \in Workers : ExtFinish(w)
    \/ \E w \in Workers : Cleanup(w)

FetchSpec == Init /\ [][FetchNext]_vars

\* The window's info-fetch workers, while its single downloads start, are
\* stopped and end.
WorkerNext ==
    \/ UiFetchVideoInfo
    \/ UiFetchLiveInfo
    \/ FetchEnd
    \/ WorkerPost
    \/ WorkerEnd
    \/ Stop
    \/ \E w \in Workers : UiStartSingle(w)
    \/ \E w \in Workers : RunClear(w)
    \/ \E w \in Workers : RunActive(w)
    \/ \E w \in Workers : ExtFinish(w)
    \/ \E w \in Workers : Cleanup(w)

WorkerSpec == Init /\ [][WorkerNext]_vars

\* The prototype's download threads and the stop button of its window.
ProtoNext ==
    \/ \E w \in ProtoWorkers : ProtoStart(w)
    \/ \E w \in ProtoWorkers : ProtoAssign(w)
    \/ \E w \in ProtoWorkers : ProtoFinish(w)
    \/ StopDownloadBegin
    \/ StopDownloadMark

ProtoSpec == Init /\ [][ProtoNext]_vars

(* ============================== claims ================================ *)

\* how the external calls of thread w ended so far
Kinds(w) == {outcomes[w][i].kind : i \in 1..Len(outcomes[w])}

\* no KeyboardInterrupt has reached any _run_download
NoInterrupt == \A w \in Workers : "kbi" \notin Kinds(w)

\* thread w runs (or ran) the first download method entered on the manager
FirstDownload(w) ==
    /\ entry[w] \in ManagerEntries
    /\ \A v \in Workers : v < w => entry[v] \notin ManagerEntries

\* C1 (as stated): once stop() has set the signal while a download is running
\* (mark = "run": the stop came after the download's own start step), the
\* signal is still set when that download's external call invokes the hook
\* next, so the hook raises DownloadAborted instead of forwarding progress.
C1_StopReachesEveryRunningDownload ==
    \A w \in Workers :
        (mark[w] = "run" /\ pc[w] = "ext") => HookRaises(abort_event)

C3_StaleStopHasNoEffect ==
    \A w \in Workers :
        (entry[w] \in ManagerEntries /\ ~overlap /\ NoInterrupt
           /\ stopsAtCall[w] >= 1 /\ stops = stopsAtCall[w] /\ pc[w] = "done")
        => result[w] # "DownloadAborted"

\* the bundle's log of thread w is that of a download whose handler has run
Ended(w) == pc[w] = "cleanup"

\* positions of the terminal callbacks in log l
Terminals(l) == {i \in 1..Len(l) : l[i].ev \in {"complete", "error"}}

\* C4: the callbacks of one download's bundle come in the order on_start
\* (exactly once, first, from the start step on), then on_progress any
\* number of times, then exactly one of on_complete / on_error once the
\* external call has ended; at no time two terminal callbacks, nor any
\* callback after the terminal one.  A bundle without on_start
\* (_callbacks_playlist) receives the same order without it.
C4_CallbackOrder ==
    \A w \in Workers :
        LET l == cb[w]
            b == Bundle(entry[w])
        IN
        /\ \A i \in 1..Len(l) : l[i].ev = "start" <=> (i = 1 /\ "start" \in b)
        /\ Cardinality(Terminals(l)) <= 1
        /\ \A i \in Terminals(l) : i = Len(l)
        /\ pc[w] = "ext" => (Terminals(l) = {} /\ ("start" \in b => Count(l, "start") = 1))
        /\ Ended(w) => (Cardinality(Terminals(l)) = 1
                          /\ ("start" \in b => Count(l, "start") = 1))

\* C4 witness: a download ended with start, progress, error in its log, and
\* some callback raised an exception on the way.
C4_Witness ==
    \E w \in Workers :
        /\ Ended(w) /\ cbRaised
        /\ Len(cb[w]) = 3
        /\ cb[w][1].ev = "start" /\ cb[w][2].ev = "progress" /\ cb[w][3].ev = "error"

\* C5: when a run is cancelled -- its hook raised DownloadAborted or a
\* KeyboardInterrupt reached _run_download -- on_error has been invoked
\* exactly once, with aborted = True, on_complete not at all, the run raises
\* DownloadAborted, and so does the download method to its caller.
C5_CancelledRun ==
    \A w \in Workers :
        (outcomes[w] # <<>> /\ Last(outcomes[w]).kind \in {"aborted", "kbi"})
        => /\ pc[w] \in {"cleanup", "done"}
           /\ Count(cb[w], "error") = 1
           /\ Last(cb[w]).ev = "error" /\ Last(cb[w]).aborted
           /\ Count(cb[w], "complete") = 0
           /\ pc[w] = "cleanup" => exc[w] = "DownloadAborted"
           /\ pc[w] = "done" => result[w] = "DownloadAborted"

\* C5 witness: the second item of a URL list was cancelled by its hook and
\* the caller of download_url_list observed DownloadAborted.
C5_Witness ==
    \E w \in Workers :
        /\ entry[w] = "url_list" /\ pc[w] = "done"
        /\ Len(outcomes[w]) = 2 /\ outcomes[w][2].kind = "aborted"
        /\ result[w] = "DownloadAborted"

\* C6: when the external call fails with an error that is no cancellation,
\* on_error has been invoked exactly once, with the url and the error text
\* and no aborted marker, on_complete not at all, and the same error is
\* raised by the run; download_video / download_livestream /
\* download_playlist_simple hand it to their caller unchanged.
C6_ExternalFailure ==
    \A w \in Workers :
        (outcomes[w] # <<>> /\ Last(outcomes[w]).kind = "err"
           /\ (pc[w] = "cleanup" \/ (pc[w] = "done" /\ entry[w] \in SingleEntries)))
        => /\ Count(cb[w], "error") = 1
           /\ Last(cb[w]).ev = "error"
           /\ Last(cb[w]).url = urls[w][idx[w]]
           /\ Last(cb[w]).error = Last(outcomes[w]).error
           /\ ~Last(cb[w]).aborted
           /\ Count(cb[w], "complete") = 0
           /\ pc[w] = "cleanup" => exc[w] = Last(outcomes[w]).error
           /\ pc[w] = "done" => result[w] = Last(outcomes[w]).error

\* C6 witness: a download of the window failed and its worker saw the error.
C6_Witness ==
    \E w \in Workers :
        /\ entry[w] = "playlist" /\ pc[w] = "done"
        /\ outcomes[w] # <<>> /\ Last(outcomes[w]).kind = "err"
        /\ result[w] \in ExtErrors
        /\ Count(cb[w], "progress") >= 1

\* threads inside _run_download between its start step and its finally block
Running == {w \in Workers : pc[w] \in {"ext", "cleanup"}}

\* C7: as long as runs do not overlap, _active is True exactly from the end
\* of a run's start step to its finally block; and whenever no thread is
\* inside _run_download -- whatever the outcome, callbacks that raised
\* included -- _active is False.
C7_ActiveFlag ==
    /\ ~overlap => (active <=> Running # {})
    /\ (\A w \in Workers : pc[w] \notin {"run_locked", "ext", "cleanup"}) => ~active

\* C7 witness: every outcome has been seen by some caller, a callback raised,
\* and the manager is idle again.
C7_Witness ==
    /\ cbRaised /\ ~overlap /\ ~active
    /\ \E w \in Workers : /\ entry[w] = "url_list" /\ pc[w] = "done"
                          /\ Len(outcomes[w]) = 2
                          /\ Kinds(w) = {"err", "kbi"}

\* C8 (as stated): in the window no download worker is started on the
\* manager while another download on it is in progress: at most one thread is
\* inside a download method of the manager.
C8_OneDownloadAtATime ==
    Cardinality({w \in Workers : Busy(w)}) <= 1

\* batch on_error notifications of thread w for item k
ItemErrors(w, k) ==
    {i \in 1..Len(bcb[w]) : bcb[w][i].ev = "error" /\ bcb[w][i].current = k}

\* the handler and the loop have dealt with item k of thread w
Settled(w, k) == k < Len(outcomes[w]) \/ (k = Len(outcomes[w]) /\ pc[w] # "cleanup")

\* C9: in download_url_list over N URLs, (a) every item whose download
\* failed with a non-abort error has exactly one batch on_error, with
\* current = k, total = N, the item's url and the error, and no other item has
\* one; (b) the items are attempted in order, each at most once; (c) the loop
\* is never stuck before the method ends; (d) when no stop() and no
\* KeyboardInterrupt occurred, the file was read and every item's bundle was
\* made, the method ends only by returning, after every item 1..N was
\* attempted and the batch on_complete was invoked exactly once, last, with
\* total = N.
C9_BatchContinuesAfterItemError ==
    \A w \in Workers :
        entry[w] = "url_list" =>
        LET n == Len(urls[w]) IN
        /\ \A k \in 1..Len(outcomes[w]) :
              Settled(w, k) =>
                 IF outcomes[w][k].kind = "err"
                 THEN /\ Cardinality(ItemErrors(w, k)) = 1
                      /\ \A i \in ItemErrors(w, k) :
                            bcb[w][i] = [ev |-> "error", current |-> k, total |-> n,
                                         url |-> urls[w][k],
                                         error |-> outcomes[w][k].error, phase |-> ""]
                 ELSE ItemErrors(w, k) = {}
        /\ \A i \in 1..Len(attempted[w]) : attempted[w][i] = i
        /\ pc[w] # "done" =>
              ENABLED (ListCheck(w) \/ RunClear(w) \/ RunActive(w) \/ ExtFinish(w)
                         \/ Cleanup(w))
        /\ (pc[w] = "done" /\ stops = 0 /\ NoInterrupt
              /\ result[w] \notin {"OSError", "FactoryError"})
           => /\ result[w] = "returned"
              /\ Len(attempted[w]) = n
              /\ Count(bcb[w], "complete") = 1
              /\ Last(bcb[w]) = [ev |-> "complete", current |-> 0, total |-> n,
                                 url |-> 0, error |-> "", phase |-> ""]

\* C9 witness: a list of two URLs, the first failed, the second was
\* downloaded, nobody called stop(), and download_url_list returned.
C9_Witness ==
    \E w \in Workers :
        /\ entry[w] = "url_list" /\ pc[w] = "done" /\ stops = 0
        /\ Len(urls[w]) = 2 /\ Len(outcomes[w]) = 2
        /\ outcomes[w][1].kind = "err" /\ outcomes[w][2].kind = "ok"
        /\ result[w] = "returned"
        /\ Cardinality(ItemErrors(w, 1)) = 1

\* C10 (as stated): after a stop() that came between two items of a URL list
\* (mark = "gap": item idx-1 was completed, the start step of item idx had
\* not begun), no further item is attempted and the caller of
\* download_url_list observes DownloadAborted.
C10_StopBetweenItemsEndsBatch ==
    \A w \in Workers :
        mark[w] = "gap"
        => /\ pc[w] \in {"list_check", "run_start", "done"}
           /\ pc[w] = "done" => result[w] = "DownloadAborted"

\* occurrences of manager m in list l
Occurrences(l, m) == Cardinality({i \in 1..Len(l) : l[i] = m})

\* C11: after every sequence of _register_manager / _unregister_manager
\* calls from any threads, no manager occurs twice in the registry and a
\* manager is a member exactly when the latest completed call for it was
\* _register_manager: a repeated registration leaves one occurrence, an
\* _unregister_manager of a non-member changes nobody's membership.
C11_RegistryHasNoDuplicates ==
    \A m \in Mgrs :
        /\ Occurrences(registry, m) <= 1
        /\ Member(registry, m) <=> lastOp[m] = "reg"

\* C11 witness: a manager was registered while registered, a manager was
\* unregistered while absent.
C11_Witness ==
    /\ dupReg /\ noopUnreg
    /\ \A m \in Mgrs : Occurrences(registry, m) <= 1

\* C12 (as stated): the members of the registry are managers some caller
\* still refers to: a manager nobody refers to any more is not a member.
C12_RegistryHoldsOnlyLiveManagers ==
    \A m \in Mgrs : Member(registry, m) => life[m] = "live"

\* C13 (as stated): whenever SIGINT is delivered the handler gets to invoke
\* stop() on every manager registered at that moment: it is not left waiting
\* for a lock held by the very thread it interrupted, and when it has
\* returned, stop() was invoked on every manager of the registry as it read it.
C13_SigintStopsEveryRegistered ==
    /\ sig = "waiting" => regLock # MainThread
    /\ (sigs > 0 /\ sig = "none")
       => \A m \in Mgrs : Member(snapshot, m) => Member(invoked, m)

\* C14: after every sequence of set() / clear() calls is_set() is True
\* exactly when the latest call was set() (False before any call), and a call
\* that repeats the one before it leaves is_set() as it was.
C14_SignalReflectsLatestCall ==
    LET n == Len(calls) IN
    /\ abort_event <=> (n >= 1 /\ calls[n] = "set")
    /\ (n >= 2 /\ calls[n] = calls[n - 1]) => abort_event = prevFlag

\* C14 witness: set, set, clear, clear have been called in this order.
C14_Witness ==
    LET n == Len(calls) IN
    /\ n >= 4
    /\ calls[n - 3] = "set" /\ calls[n - 2] = "set"
    /\ calls[n - 1] = "clear" /\ calls[n] = "clear"
    /\ ~abort_event

\* the mode the claim expects for argument x: the three modes as they are,
\* every other string "embed"
ClaimedMode(x) ==
    IF StripLower(x) \in ValidModes THEN StripLower(x) ELSE Lit("embed")

\* C15 (as stated): the attribute set by set_metadata_mode is the mode given,
\* or "embed" for any other argument; the options built for a call have the
\* embed option exactly for mode "embed" and the sidecar option exactly for
\* mode "separate", where the mode is the one passed per call -- "embed" if
\* that string is not recognized -- or, when none is passed, the manager's,
\* or "embed" when the manager has none.
C15_MetadataModeOptions ==
    /\ ~metaRaw.isNone => meta = ClaimedMode(metaRaw)
    /\ opts.built =>
         LET mode == IF req.mode.isNone \/ req.mode = Lit("")
                     THEN (IF meta.isNone THEN Lit("embed") ELSE meta)
                     ELSE ClaimedMode(req.mode)
         IN  /\ opts.addmetadata <=> mode = Lit("embed")
             /\ opts.writeinfojson <=> mode = Lit("separate")

C16_ProgressHook ==
    [][\A w \in Workers :
         Hook(w) =>
            LET u == urls[w][idx[w]]
            IN  IF abort_event
                THEN /\ outcomes'[w] = Append(outcomes[w],
                                              [kind |-> "aborted", error |-> "aborted by user"])
                     /\ exc'[w] = "DownloadAborted"
                     /\ Count(cb'[w], "progress") = Count(cb[w], "progress")
                     /\ pc'[w] # "ext"
                ELSE /\ cb'[w] = Append(cb[w], ProgressPayload(u))
                     /\ outcomes'[w] = outcomes[w]
                     /\ exc'[w] = exc[w]
                     /\ pc'[w] = "ext"]_vars

\* C16 witness: on_progress is the only callback invoked so far, it raised, and
\* the external call is still running with the event forwarded once.
C16_Witness ==
    \E w \in Workers :
       /\ entry[w] = "playlist" /\ pc[w] = "ext"
       /\ cb[w] = <<ProgressPayload(urls[w][idx[w]])>>
       /\ cbRaised
       /\ \A v \in Workers \ {w} : cb[v] = <<>> /\ bcb[v] = <<>>

\* C17: an exception raised by a callback, of a download or of a batch, never
\* becomes the exception of a download, the outcome of an external call or the
\* result of an entry point; what _run_download propagates is determined by how
\* the external call ended, and a batch whose items were all run returns.
C17_CallbackExceptionsContained ==
    \A w \in Workers :
       /\ exc[w] # "CallbackError"
       /\ result[w] # "CallbackError"
       /\ \A i \in 1..Len(outcomes[w]) : outcomes[w][i].error # "CallbackError"
       /\ pc[w] = "cleanup" => exc[w] = Propagated(Last(outcomes[w]))
       /\ (pc[w] = "done" /\ entry[w] \in SingleEntries /\ outcomes[w] # <<>>)
             => result[w] = IF Last(outcomes[w]).kind = "ok" THEN "returned"
                            ELSE Propagated(Last(outcomes[w]))

\* C17 witness: a batch ran all its items and returned although a callback
\* raised on the way.
C17_Witness ==
    \E w \in Workers :
       /\ entry[w] = "url_list" /\ pc[w] = "done" /\ result[w] = "returned"
       /\ Len(urls[w]) = MaxLines /\ Len(outcomes[w]) = MaxLines
       /\ cbRaised

\* a step of the thread that calls fetch_info
FetchStep == FetchCall \/ FetchEnd

\* C18: the probe of fetch_info is asked not to download and is given no
\* progress hook; when the probe raised, fetch_info raises that error to its
\* caller, and otherwise it returns; no step of fetch_info changes the abort
\* signal, the active flag or anything else of the manager's downloads.
C18_FetchInfoFrame ==
    [][/\ FetchStep => /\ abort_event' = abort_event
                       /\ active' = active
                       /\ lock' = lock
                       /\ runVars' = runVars
       /\ fopts'.asked => ~fopts'.download /\ ~fopts'.hooks
       /\ fpc' = "done" =>
            /\ fraw'.kind = "raise" =>
                 fresult'.kind = "raised" /\ fresult'.error = fraw'.error
            /\ fraw'.kind # "raise" => fresult'.kind = "returned"]_vars

\* C18 witness: the probe raised and fetch_info raised while a download was
\* active and the abort signal was set.
C18_Witness ==
    /\ fpc = "done" /\ fresult.kind = "raised"
    /\ abort_event /\ active

\* C20: stop() changes nothing of any download thread; when the external call
\* of a download returns normally while the abort signal is set (stop() came
\* after the last invocation of the hook), on_complete is invoked, nothing is
\* raised and the signal stays set; the single download then returns normally;
\* and the signal goes from set to clear only in the start step of a
\* _run_download.
C20_CooperativeCancellation ==
    [][/\ Stop => runVars' = runVars
       /\ \A w \in Workers :
            (/\ pc[w] = "ext" /\ abort_event
             /\ Len(outcomes'[w]) = Len(outcomes[w]) + 1
             /\ Last(outcomes'[w]).kind = "ok")
            => /\ cb'[w] = Append(cb[w], CompletePayload(urls[w][idx[w]]))
               /\ exc'[w] = "none"
               /\ pc'[w] = "cleanup"
               /\ abort_event'
       /\ \A w \in Workers :
            (/\ pc[w] = "cleanup" /\ pc'[w] # "cleanup"
             /\ exc[w] = "none" /\ entry[w] \in SingleEntries)
            => /\ pc'[w] = "done"
               /\ result'[w] = "returned"
               /\ abort_event' = abort_event
       /\ (abort_event /\ ~abort_event')
            => \E w \in Workers : pc[w] = "run_start" /\ pc'[w] = "run_locked"]_vars

\* C20 witness: stop() came while the download was running, the download
\* ended with on_complete and returned normally, and the signal is still set.
C20_Witness ==
    \E w \in Workers :
       /\ entry[w] \in SingleEntries /\ mark[w] = "run"
       /\ pc[w] = "done" /\ result[w] = "returned"
       /\ Last(cb[w]) = CompletePayload(UiUrl)
       /\ abort_event

\* the batch on_progress notifications a batch has delivered, in order
Notified(w) == SelectSeq(bcb[w], LAMBDA p : p.ev = "progress")

\* C21: reading a list file keeps exactly its non-blank lines, in file order;
\* the k-th batch on_progress of a batch is {current: k, total: N, url: the
\* k-th URL}; item i is inside _run_download only after exactly i such
\* notifications, and the loop is at its head for item i after exactly i - 1;
\* the external call of an item is invoked only when those of all earlier
\* items have ended; a batch that returns has notified every item.
C21_BatchProgressInOrder ==
    /\ \A f \in Files :
         LET us == ReadUrls(f)
             nonblank == {i \in 1..Len(f) : f[i].text # 0}
         IN  /\ Len(us) = Cardinality(nonblank)
             /\ {us[k] : k \in 1..Len(us)} = {f[i].text : i \in nonblank}
             /\ \A j, k \in 1..Len(us) : j < k => us[j] < us[k]
    /\ \A w \in Workers :
         entry[w] = "url_list" =>
            LET P == Notified(w)
                N == Len(urls[w])
            IN  /\ \A k \in 1..Len(P) : P[k] = BatchProgress(k, N, urls[w][k])
                /\ Len(P) <= N
                /\ pc[w] \in {"run_start", "run_locked", "ext", "cleanup"} => Len(P) = idx[w]
                /\ pc[w] = "list_check" => Len(P) = idx[w] - 1
                /\ \A k \in 1..Len(attempted[w]) : attempted[w][k] = k
                /\ Len(attempted[w]) <= Len(P)
                /\ Len(outcomes[w]) = Len(attempted[w]) - (IF pc[w] = "ext" THEN 1 ELSE 0)
                /\ (pc[w] = "done" /\ result[w] = "returned") => Len(P) = N

\* C21 witness: a file whose first line is blank and whose second is a URL was
\* read; the batch notified that URL as item 1 of 1, ran it and returned.
C21_Witness ==
    \E w \in Workers :
       /\ entry[w] = "url_list" /\ pc[w] = "done" /\ result[w] = "returned"
       /\ urls[w] = <<2>>
       /\ Notified(w) = <<BatchProgress(1, 1, 2)>>
       /\ attempted[w] = <<1>>

\* C22: a batch ended by a cancellation -- at the abort check before an item
\* or by DownloadAborted out of an item's download -- has started no item past
\* the one at which it was cancelled, has invoked no batch on_complete and no
\* batch on_error for the cancellation; a batch on_complete was invoked only
\* when the loop is past the last item and every item's download has ended.
C22_BatchCancellationPropagates ==
    \A w \in Workers :
       entry[w] = "url_list" =>
          LET N == Len(urls[w])
          IN  /\ \A k \in 1..Len(bcb[w]) :
                   bcb[w][k].ev = "error" => bcb[w][k].error # "DownloadAborted"
              /\ (pc[w] = "done" /\ result[w] = "DownloadAborted") =>
                   /\ Count(bcb[w], "complete") = 0
                   /\ idx[w] <= N
                   /\ Len(attempted[w]) <= idx[w]
                   /\ Len(outcomes[w]) \in {idx[w] - 1, idx[w]}
                   /\ Len(outcomes[w]) = idx[w] =>
                        Last(outcomes[w]).kind \in {"aborted", "kbi"}
                   /\ Len(Notified(w)) <= idx[w]
              /\ (exc[w] = "DownloadAborted" /\ pc[w] \notin {"cleanup", "done"}) => FALSE
              /\ Count(bcb[w], "complete") >= 1 =>
                   /\ Count(bcb[w], "complete") = 1
                   /\ Last(bcb[w]) = BatchComplete(N)
                   /\ pc[w] = "done" /\ idx[w] = N + 1
                   /\ Len(outcomes[w]) = N

\* C22 witness: the first of two items was cancelled in its download; the
\* batch ended with DownloadAborted, the second item was never notified.
C22_Witness ==
    \E w \in Workers :
       /\ entry[w] = "url_list" /\ pc[w] = "done" /\ result[w] = "DownloadAborted"
       /\ Len(urls[w]) = 2 /\ idx[w] = 1
       /\ Len(outcomes[w]) = 1 /\ outcomes[w][1].kind = "aborted"
       /\ Len(Notified(w)) = 1

\* C23: in every step in which download_url_list fails to read its list file:
\* the batch on_start and then one batch on_error with phase "read_url_list"
\* and the read error are all the batch callbacks invoked, the read error is
\* what the caller gets, no item is started and no callback of an item is
\* invoked, and the abort signal and the active flag are as they were before
\* the call.
C23_UnreadableListFile ==
    [][\A w \in Workers :
         (result'[w] = "OSError" /\ result[w] # "OSError") =>
            /\ pc[w] = "idle" /\ pc'[w] = "done"
            /\ bcb'[w] = << [ev |-> "start", current |-> 0, total |-> 0, url |-> 0,
                             error |-> "", phase |-> ""],
                            [ev |-> "error", current |-> 0, total |-> 0, url |-> 0,
                             error |-> "OSError", phase |-> "read_url_list"] >>
            /\ attempted'[w] = <<>> /\ outcomes'[w] = <<>> /\ cb'[w] = <<>>
            /\ urls'[w] = <<>>
            /\ abort_event' = abort_event
            /\ active' = active
            /\ lock' = lock]_vars

\* C23 witness: the read failed while the abort signal was set; the batch
\* ended with the read error and the signal is still set.
C23_Witness ==
    \E w \in Workers :
       /\ entry[w] = "url_list" /\ pc[w] = "done" /\ result[w] = "OSError"
       /\ Len(bcb[w]) = 2 /\ bcb[w][2].phase = "read_url_list"
       /\ abort_event /\ stops = 1 /\ stopsAtCall[w] = 1

\* C24 (as stated): no step writes the abort signal or the active flag of the
\* manager while another thread holds the manager's lock -- the writer is the
\* holder, or takes the lock in the step --; no step changes the registry
\* unless the registry lock is held, and the SIGINT handler of the module
\* iterates the registry holding that lock.
C24_WritesUnderLock ==
    [][/\ (abort_event' # abort_event \/ active' # active) =>
            \/ lock = NoOwner
            \/ \E w \in Workers : lock = w /\ pc'[w] # pc[w]
       /\ registry' # registry => regLock # NoOwner
       /\ (sig = "locked" /\ sig' = "none") => regLock = HandlerOwner]_vars

\* C25: a worker has posted nothing before its fetch_info ended and exactly
\* one event after; worker_fetch_video_info posts --VIDEO-INFO-LIVE-- (title
\* and url, no formats) iff the probe returned a result whose live flag is
\* true, --VIDEO-INFO-READY-- (with formats) iff it returned a non-empty
\* result that is not live, --VIDEO-INFO-ERROR-- iff it raised or returned
\* nothing; worker_fetch_live_info posts --LIVE-INFO-READY-- iff the live
\* flag is true and --LIVE-INFO-ERROR-- otherwise.
C25_OneEventPerFetch ==
    /\ fpc # "posted" => fposted = <<>>
    /\ fpc = "posted" =>
         LET nothing == fraw.kind \in {"raise", "none"} \/ fraw.info.empty
             live == ~nothing /\ fraw.info.live
             e == fposted[1]
         IN  /\ Len(fposted) = 1
             /\ fkind = "video" =>
                  /\ e.ev \in {"--VIDEO-INFO-LIVE--", "--VIDEO-INFO-READY--",
                               "--VIDEO-INFO-ERROR--"}
                  /\ e.ev = "--VIDEO-INFO-LIVE--" <=> live
                  /\ e.ev = "--VIDEO-INFO-LIVE--" => e.keys = {"title", "url"}
                  /\ e.ev = "--VIDEO-INFO-READY--" <=> (~nothing /\ ~live)
                  /\ e.ev = "--VIDEO-INFO-READY--" => "formats" \in e.keys
                  /\ e.ev = "--VIDEO-INFO-ERROR--" <=> nothing
             /\ fkind = "live" =>
                  /\ e.ev \in {"--LIVE-INFO-READY--", "--LIVE-INFO-ERROR--"}
                  /\ e.ev = "--LIVE-INFO-READY--" <=> live
                  /\ e.ev = "--LIVE-INFO-ERROR--" <=> ~live

\* C25 witness: the live worker fetched a result that is not live and posted
\* --LIVE-INFO-ERROR--.
C25_Witness ==
    /\ fpc = "posted" /\ fkind = "live"
    /\ fraw.kind = "info" /\ ~fraw.info.empty /\ ~fraw.info.live
    /\ fposted = <<WindowEvent("--LIVE-INFO-ERROR--", {"error"}, FALSE)>>

\* C26 (as stated): a batch that was neither cancelled nor unable to read its
\* list file ends by returning, with the batch on_complete as its last batch
\* callback: no failure while an item is prepared, that of
\* per_item_callbacks_factory included, ends the batch.
C26_ItemPreparationIsolated ==
    \A w \in Workers :
       (/\ entry[w] = "url_list" /\ pc[w] = "done"
        /\ result[w] \notin {"DownloadAborted", "OSError"})
       => /\ result[w] = "returned"
          /\ bcb[w] # <<>>
          /\ Last(bcb[w]) = BatchComplete(Len(urls[w]))

\* C27 (as stated): whenever SIGINT has been delivered and the module's
\* handler has started, the handler eventually returns.
C27_HandlerTerminates == (sig # "none") ~> (sig = "none")

\* C28 (as stated): when the window's URL list worker has ended after posting
\* --URL-LIST-START-- with the count of the non-blank lines, every listed URL
\* was attempted, and a terminal event (--URL-LIST-COMPLETE-- or
\* --URL-LIST-FILE-ERROR--) was posted unless the batch was cancelled.
C28_UiUrlListRunsTheBatch ==
    \A w \in Workers :
       (/\ entry[w] = "ui_url_list" /\ pc[w] = "done"
        /\ posted[w] # <<>> /\ posted[w][1].ev = "--URL-LIST-START--")
       => /\ Len(attempted[w]) = posted[w][1].total
          /\ \/ result[w] = "DownloadAborted"
             \/ \E k \in 1..Len(posted[w]) :
                   posted[w][k].ev \in {"--URL-LIST-COMPLETE--", "--URL-LIST-FILE-ERROR--"}

\* window events the bundle's callbacks of a download posted: every
\* callback of _callbacks_single / _callbacks_live posts one event
PostedByCallbacks(w, ev) == Count(cb[w], ev)

\* C29 (as stated): when a worker of a single or livestream download has
\* ended, exactly one terminal event was posted for the download: one
\* completion event and no error event, or one error event and no completion.
C29_OneTerminalEvent ==
    \A w \in Workers :
       (entry[w] \in {"video", "live"} /\ pc[w] = "done") =>
          PostedByCallbacks(w, "complete") + PostedByCallbacks(w, "error")
             + Len(posted[w]) = 1

\* C30 (as stated): while a download is in flight, current_download_process
\* is the downloader of a download in flight; a stop_download() that returned
\* while a download was in flight returned True and marked the downloader of
\* a download in flight; one that returned False returned with none in flight.
C30_StopDownloadFindsDownload ==
    /\ InFlight # {} => current_download_process \in InFlight
    /\ (stopRet # "none" /\ stopFlight # {}) =>
          stopRet = "True" /\ stopMarked \in stopFlight
    /\ stopRet = "False" => stopFlight = {}

====
